---- MODULE Spec2Model ----
(***************************************************************************)
(* Startup coordination of the diagnostics subsystem of the wasm runtime   *)
(* (src/mono/wasm/runtime/diagnostics/index.ts): the DOTNET_DiagnosticPorts *)
(* parser, the one-shot initializer, the early-startup session activation  *)
(* callback and the runtime-checkpoint notification.                       *)
(*                                                                         *)
(* JavaScript values are records tagged by their typeof / nullness in the  *)
(* field t; strings are sequences of one-character strings so that split   *)
(* and toLowerCase are computed character by character.                    *)
(***************************************************************************)
EXTENDS Integers, Sequences, FiniteSets, TLC

VARIABLES
    monoWasmThreads,            \* build constant consts:monoWasmThreads
    envParts,                   \* the segments and components env was written from (history)
    env,                        \* value of DOTNET_DiagnosticPorts (Undefined or a string)
    startup_session_configs,    \* index.ts:29
    startup_sessions,           \* index.ts:30
    suspendOnStartup,           \* index.ts:94
    diagnosticsServerEnabled,   \* index.ts:95
    diagnosticsInitialized,     \* index.ts:97
    pending,                    \* calls of mono_wasm_init_diagnostics suspended at the await (line 121):
                                \* url, suspend and the sessions options holds (options is not reassigned)
    slot,                       \* the i32 behind out_options
    events,                     \* calls made to the collaborators, in order
    lastInit,                   \* how the most recent mono_wasm_init_diagnostics call left (history)
    controllerStarted,          \* some startDiagnosticServer call resolved to a controller (history)
    appliedOptions,             \* whether the call that got past validation carried a server, and its
                                \* normalized suspend flag (history)
    activatedWhilePending,      \* the early-startup callback ran while a call was suspended (history)
    initCalls,                  \* number of mono_wasm_init_diagnostics calls made
    callbackCalls,              \* number of early-startup callback calls made
    checkpointCalls             \* number of runtime-checkpoint calls made

vars == <<monoWasmThreads, envParts, env, startup_session_configs, startup_sessions,
          suspendOnStartup, diagnosticsServerEnabled, diagnosticsInitialized,
          pending, slot, events, lastInit, controllerStarted,
          appliedOptions, activatedWhilePending, initCalls, callbackCalls, checkpointCalls>>

-----------------------------------------------------------------------------
(* Bounds of the model *)

MaxInitCalls == 2
MaxCallbackCalls == 2
MaxCheckpointCalls == 1
MaxSessions == 2
MaxSegments == 2

(* The largest number of ','-components a port specification may have (line 173) *)
MaxPortComponents == 3

-----------------------------------------------------------------------------
(* JavaScript values *)

Undefined == [t |-> "undefined"]
Null == [t |-> "null"]
Str(s) == [t |-> "string", v |-> s]
Bool(b) == [t |-> "boolean", v |-> b]
Num(n) == [t |-> "number", v |-> n]

is_nullish(x) == x.t = "undefined" \/ x.t = "null"

-----------------------------------------------------------------------------
(* Strings *)

UpperChars == <<"A","B","C","D","E","F","G","H","I","J","K","L","M",
                "N","O","P","Q","R","S","T","U","V","W","X","Y","Z">>
LowerChars == <<"a","b","c","d","e","f","g","h","i","j","k","l","m",
                "n","o","p","q","r","s","t","u","v","w","x","y","z">>

toLowerCaseChar(c) ==
    IF \E i \in 1..Len(UpperChars) : UpperChars[i] = c
    THEN LowerChars[CHOOSE i \in 1..Len(UpperChars) : UpperChars[i] = c]
    ELSE c

toLowerCase(s) == [i \in 1..Len(s) |-> toLowerCaseChar(s[i])]

(* String.prototype.split with a one-character separator *)
RECURSIVE split(_, _)
split(s, sep) ==
    IF \A i \in 1..Len(s) : s[i] # sep
    THEN <<s>>
    ELSE LET i == CHOOSE k \in 1..Len(s) :
                      s[k] = sep /\ \A j \in 1..(k - 1) : s[j] # sep
         IN <<SubSeq(s, 1, i - 1)>> \o split(SubSeq(s, i + 1, Len(s)), sep)

RECURSIVE join(_, _)
join(parts, sep) ==
    IF Len(parts) = 0 THEN <<>>
    ELSE IF Len(parts) = 1 THEN parts[1]
    ELSE parts[1] \o <<sep>> \o join(Tail(parts), sep)

W_nosuspend == <<"n","o","s","u","s","p","e","n","d">>
W_suspend == <<"s","u","s","p","e","n","d">>
W_listen == <<"l","i","s","t","e","n">>
W_connect == <<"c","o","n","n","e","c","t">>

-----------------------------------------------------------------------------
(* diagnostic_options_from_ports_spec, index.ts:162-212 *)

(* Mutation: the switch has no case for "listen" *)
applyComponent_noListenCase(component, st) ==
    LET c == toLowerCase(component) IN
    IF c = W_nosuspend THEN [st EXCEPT !.suspend = FALSE]
    ELSE IF c = W_suspend THEN [st EXCEPT !.suspend = TRUE]
    ELSE IF c = W_connect THEN [st EXCEPT !.connect = TRUE]
    ELSE st

(* One pass of the switch at lines 183-199 over a component *)
applyComponent(component, st) ==
    LET c == toLowerCase(component) IN
    IF c = W_nosuspend THEN [st EXCEPT !.suspend = FALSE]
    ELSE IF c = W_suspend THEN [st EXCEPT !.suspend = TRUE]
    ELSE IF c = W_listen THEN [st EXCEPT !.connect = FALSE]
    ELSE IF c = W_connect THEN [st EXCEPT !.connect = TRUE]
    ELSE st

(* Mutation: the components are gone through from the second to the last *)
RECURSIVE componentsLoop_forward(_, _, _)
componentsLoop_forward(components, i, st) ==
    IF i >= 2
    THEN applyComponent(components[i], componentsLoop_forward(components, i - 1, st))
    ELSE st

(* The loop of lines 181-200: i runs from the last component down to the second *)
RECURSIVE componentsLoop(_, _, _)
componentsLoop(components, i, st) ==
    IF i >= 2
    THEN componentsLoop(components, i - 1, applyComponent(components[i], st))
    ELSE st

diagnostic_options_from_ports_spec(val) ==
    IF val = <<>> THEN Null
    ELSE
      LET ports == split(val, ";") IN
      IF Len(ports) = 0 THEN Null
      ELSE
        LET portSpec == ports[Len(ports)]
            components == split(portSpec, ",")
        IN
        IF Len(components) < 1 \/ Len(components) > MaxPortComponents THEN Null
        ELSE
          LET uri == components[1]
              st == componentsLoop(components, Len(components),
                                   [connect |-> TRUE, suspend |-> TRUE])
          IN
          IF ~st.connect THEN Null
          ELSE [t |-> "object",
                server |-> [t |-> "object",
                            connectUrl |-> Str(uri),
                            suspend |-> Bool(st.suspend)],
                sessions |-> Undefined]

(* diagnostic_options_from_environment, index.ts:151-158 *)
diagnostic_options_from_environment(envVal) ==
    IF is_nullish(envVal) THEN Null
    ELSE diagnostic_options_from_ports_spec(envVal.v)

-----------------------------------------------------------------------------
(* Inputs *)

W_env == <<"e","n","v">>
W_true == <<"t","r","u","e">>
W_false == <<"f","a","l","s","e">>
W_True == <<"T","r","u","e">>
W_url == <<"w","s">>
W_p == <<"p">>

(* EventPipeSessionOptions are opaque to this module *)
Configs == {"cfgA", "cfgB"}

SeqsUpTo(S, n) == UNION {[1..k -> S] : k \in 0..n}

(* options.sessions of explicit options; options parsed from the environment *)
(* leave it undefined                                                        *)
SessionInputs == {[t |-> "array", v |-> ss] : ss \in SeqsUpTo(Configs, MaxSessions)}

ConnectUrlInputs == {Str(W_url), Num(42)}

SuspendInputs == {Bool(TRUE), Bool(FALSE), Str(W_true), Str(W_false), Str(W_True)}

ServerInputs ==
    {Undefined} \cup
    {[t |-> "object", connectUrl |-> u, suspend |-> x] :
        u \in ConnectUrlInputs, x \in SuspendInputs}

ExplicitOptions ==
    {[t |-> "object", server |-> s, sessions |-> ss] :
        s \in ServerInputs, ss \in SessionInputs}

InitInputs == {Str(W_env)} \cup ExplicitOptions

(* The DOTNET_DiagnosticPorts settings the startup model is run with: unset, *)
(* "p,nosuspend" and "p,listen"                                            *)
EnvParts ==
    {Undefined,
     [t |-> "parts", earlier |-> <<>>, last |-> <<W_p, W_nosuspend>>],
     [t |-> "parts", earlier |-> <<>>, last |-> <<W_p, W_listen>>]}

(* Port specifications built from components: the last segment has up to   *)
(* MaxPortComponents + 1 components, preceded by up to MaxSegments - 1     *)
(* earlier segments.                                                       *)
ComponentWords ==
    {<<>>, W_p, W_nosuspend, W_suspend, W_listen, W_connect,
     <<"L","i","s","t","e","n">>, <<"x","y">>}

SegmentParts == UNION {[1..k -> ComponentWords] : k \in 1..(MaxPortComponents + 1)}

EarlierSegments ==
    {<<"a">>, join(<<<<"b">>, W_listen, W_nosuspend, <<"c">>, <<"d">>>>, ",")}

PortSpecParts ==
    {[t |-> "parts", earlier |-> e, last |-> l] :
        e \in SeqsUpTo(EarlierSegments, MaxSegments - 1), l \in SegmentParts}

PortSpecString(ps) == join(ps.earlier \o <<join(ps.last, ",")>>, ";")

(* memory.getEnv("DOTNET_DiagnosticPorts") for a variable written from ps *)
getEnv(ps) == IF is_nullish(ps) THEN Undefined ELSE Str(PortSpecString(ps))

(* How a collaborator call can end *)
ServerOutcomes == {"controller", "null", "rejected"}

(* What the slot holds before the runtime checkpoint: a stale value that is *)
(* neither encoding of the suspend decision, so that a write shows          *)
SlotInitValues == {7}

-----------------------------------------------------------------------------
(* mono_wasm_init_diagnostics, index.ts:99-132 *)

(* Mutation: the one-shot guard never holds *)
alreadyInitialized_never == FALSE

(* The one-shot guard of line 100 *)
alreadyInitialized == diagnosticsInitialized

(* Mutation: the build is taken to support diagnostics *)
diagnosticsUnsupported_never == FALSE

(* The test of line 102 *)
diagnosticsUnsupported == ~monoWasmThreads

(* boolsyOption, lines 134-144: the value returned, or that it throws *)
boolsyOption(x) ==
    IF x.t = "boolean" THEN [threw |-> FALSE, v |-> x.v]
    ELSE IF x.t = "string" /\ x.v = W_true THEN [threw |-> FALSE, v |-> TRUE]
    ELSE IF x.t = "string" /\ x.v = W_false THEN [threw |-> FALSE, v |-> FALSE]
    ELSE [threw |-> TRUE, v |-> FALSE]

(* Mutation: the call goes on without options *)
noOptions_ignored(fromEnv, options) == FALSE

(* The test of line 109, for options taken from the environment *)
noOptions(fromEnv, options) == fromEnv /\ is_nullish(options)

(* The test of line 116 *)
connectUrlInvalid(server) ==
    server.connectUrl.t = "undefined" \/ server.connectUrl.t # "string"

(* options?.server *)
serverOf(options) == IF is_nullish(options) THEN Undefined ELSE options.server

(* options?.sessions ?? [], line 129 *)
sessionsOf(options) ==
    IF is_nullish(options) THEN <<>>
    ELSE IF is_nullish(options.sessions) THEN <<>>
    ELSE options.sessions.v

(* startup_session_configs.push(...sessions), line 130 *)
pushSessions(configs, sessions) == configs \o sessions

(* Mutation: the suspend request is honoured outside the controller test *)
afterServerStart_suspendAnyway(controller, suspend, flags) ==
    [enabled |-> IF controller THEN TRUE ELSE flags.enabled,
     suspendOn |-> IF suspend THEN TRUE ELSE flags.suspendOn]

(* Lines 122-127: the flags after startDiagnosticServer resolved to controller *)
afterServerStart(controller, suspend, flags) ==
    IF controller
    THEN [enabled |-> TRUE,
          suspendOn |-> IF suspend THEN TRUE ELSE flags.suspendOn]
    ELSE flags

RemoveAt(q, i) == SubSeq(q, 1, i - 1) \o SubSeq(q, i + 1, Len(q))

(* The call up to its return, its throw or its suspension at the await *)
mono_wasm_init_diagnostics(opts) ==
    /\ initCalls < MaxInitCalls
    /\ initCalls' = initCalls + 1
    /\ UNCHANGED <<monoWasmThreads, envParts, env, startup_sessions, suspendOnStartup,
                   diagnosticsServerEnabled, slot, controllerStarted,
                   activatedWhilePending, callbackCalls, checkpointCalls>>
    /\ IF alreadyInitialized
       THEN /\ lastInit' = "initialized"
            /\ UNCHANGED <<diagnosticsInitialized, startup_session_configs, pending,
                           events, appliedOptions>>
       ELSE IF diagnosticsUnsupported
       THEN /\ lastInit' = "unsupported"
            /\ UNCHANGED <<diagnosticsInitialized, startup_session_configs, pending,
                           events, appliedOptions>>
       ELSE
         LET fromEnv == opts.t = "string" /\ opts.v = W_env
             options == IF fromEnv THEN diagnostic_options_from_environment(env) ELSE opts
             server == serverOf(options)
         IN
         IF noOptions(fromEnv, options)
         THEN /\ lastInit' = "no_options"
              /\ UNCHANGED <<diagnosticsInitialized, startup_session_configs, pending,
                             events, appliedOptions>>
         ELSE
           /\ diagnosticsInitialized' = TRUE
           /\ IF ~is_nullish(server)
              THEN IF connectUrlInvalid(server)
                   THEN /\ lastInit' = "threw_connectUrl"
                        /\ UNCHANGED <<startup_session_configs, pending, events,
                                       appliedOptions>>
                   ELSE IF boolsyOption(server.suspend).threw
                   THEN /\ lastInit' = "threw_suspend"
                        /\ UNCHANGED <<startup_session_configs, pending, events,
                                       appliedOptions>>
                   ELSE /\ events' = Append(events, [op |-> "startDiagnosticServer",
                                                     url |-> server.connectUrl.v])
                        /\ pending' = Append(pending,
                                [url |-> server.connectUrl.v,
                                 suspend |-> boolsyOption(server.suspend).v,
                                 sessions |-> sessionsOf(options)])
                        /\ appliedOptions' =
                               [t |-> "object", server |-> TRUE,
                                suspend |-> boolsyOption(server.suspend).v]
                        /\ lastInit' = "awaiting"
                        /\ UNCHANGED startup_session_configs
              ELSE /\ startup_session_configs' =
                        pushSessions(startup_session_configs, sessionsOf(options))
                   /\ appliedOptions' =
                          [t |-> "object", server |-> FALSE, suspend |-> FALSE]
                   /\ lastInit' = "completed"
                   /\ UNCHANGED <<pending, events>>

(* The rest of a suspended call, from the await of line 121 on: the promise *)
(* of startDiagnosticServer settles with a controller, with null, or rejects *)
resume_init_diagnostics(i, outcome) ==
    /\ i \in 1..Len(pending)
    /\ LET frame == pending[i]
           flags == afterServerStart(outcome = "controller", frame.suspend,
                        [enabled |-> diagnosticsServerEnabled,
                         suspendOn |-> suspendOnStartup])
       IN
       /\ pending' = RemoveAt(pending, i)
       /\ IF outcome = "rejected"
          THEN /\ lastInit' = "rejected"
               /\ UNCHANGED <<diagnosticsServerEnabled, suspendOnStartup,
                              startup_session_configs, controllerStarted>>
          ELSE /\ diagnosticsServerEnabled' = flags.enabled
               /\ suspendOnStartup' = flags.suspendOn
               /\ controllerStarted' = (controllerStarted \/ outcome = "controller")
               /\ startup_session_configs' =
                      pushSessions(startup_session_configs, frame.sessions)
               /\ lastInit' = "completed"
    /\ UNCHANGED <<monoWasmThreads, envParts, env, startup_sessions, diagnosticsInitialized,
                   slot, events, appliedOptions, activatedWhilePending,
                   initCalls, callbackCalls, checkpointCalls>>

-----------------------------------------------------------------------------
(* mono_wasm_event_pipe_early_startup_callback, index.ts:33-42 *)

(* Mutation: the null test of line 47 is missing *)
createAndStartEventPipeSession_noNullTest(options, rejected, evs) ==
    LET made == Append(evs, [op |-> "makeEventPipeSession", options |-> options,
                             created |-> ~rejected])
        id == Len(made)
    IN [session |-> [t |-> "session", id |-> id, options |-> options],
        events |-> Append(made, [op |-> "start", session |-> id])]

(* createAndStartEventPipeSession, lines 45-53: the session returned and the *)
(* calls made, given whether makeEventPipeSession returns null for options   *)
createAndStartEventPipeSession(options, rejected, evs) ==
    LET made == Append(evs, [op |-> "makeEventPipeSession", options |-> options,
                             created |-> ~rejected])
        id == Len(made)
    IN
    IF rejected
    THEN [session |-> Null, events |-> made]
    ELSE [session |-> [t |-> "session", id |-> id, options |-> options],
          events |-> Append(made, [op |-> "start", session |-> id])]

(* Mutation: all sessions are created first and the created ones started after *)
RECURSIVE createAll(_, _, _, _, _)
createAll(configs, rejects, i, acc, evs) ==
    IF i > Len(configs) THEN [sessions |-> acc, events |-> evs]
    ELSE LET made == Append(evs, [op |-> "makeEventPipeSession", options |-> configs[i],
                                  created |-> ~rejects[i]])
             session == IF rejects[i] THEN Null
                        ELSE [t |-> "session", id |-> Len(made), options |-> configs[i]]
         IN createAll(configs, rejects, i + 1, Append(acc, session), made)

RECURSIVE startAll(_, _, _)
startAll(sessions, k, evs) ==
    IF k > Len(sessions) THEN evs
    ELSE startAll(sessions, k + 1,
                  IF sessions[k].t = "session"
                  THEN Append(evs, [op |-> "start", session |-> sessions[k].id])
                  ELSE evs)

mapConfigs_createThenStart(configs, rejects, i, acc, evs) ==
    LET r == createAll(configs, rejects, i, acc, evs)
    IN [sessions |-> r.sessions, events |-> startAll(r.sessions, 1, r.events)]

(* startup_session_configs.map(...), line 39, left to right *)
RECURSIVE mapConfigs(_, _, _, _, _)
mapConfigs(configs, rejects, i, acc, evs) ==
    IF i > Len(configs) THEN [sessions |-> acc, events |-> evs]
    ELSE LET r == createAndStartEventPipeSession(configs[i], rejects[i], evs)
         IN mapConfigs(configs, rejects, i + 1, Append(acc, r.session), r.events)

(* The test of line 35 *)
nothingToStart(configs) == Len(configs) = 0

mono_wasm_event_pipe_early_startup_callback(rejects) ==
    /\ callbackCalls < MaxCallbackCalls
    /\ callbackCalls' = callbackCalls + 1
    /\ activatedWhilePending' = (activatedWhilePending \/ pending # <<>>)
    /\ IF monoWasmThreads /\ ~nothingToStart(startup_session_configs)
       THEN LET r == mapConfigs(startup_session_configs, rejects, 1, <<>>, events)
            IN /\ startup_sessions' = [t |-> "array", v |-> r.sessions]
               /\ events' = r.events
               /\ startup_session_configs' = <<>>
       ELSE UNCHANGED <<startup_sessions, events, startup_session_configs>>
    /\ UNCHANGED <<monoWasmThreads, envParts, env, suspendOnStartup, diagnosticsServerEnabled,
                   diagnosticsInitialized, pending, slot, lastInit, controllerStarted,
                   appliedOptions, initCalls, checkpointCalls>>

(* getStartupSessions, lines 72-74 *)
getStartupSessions ==
    IF is_nullish(startup_sessions) THEN <<>> ELSE startup_sessions.v

-----------------------------------------------------------------------------
(* mono_wasm_diagnostic_server_on_runtime_server_init, index.ts:214-222 *)

(* Mutation: the checkpoint does not test the flag *)
serverEnabled_always == TRUE

(* The test of line 215 *)
serverEnabled == diagnosticsServerEnabled

(* suspendOnStartup ? 1 : 0, line 220 *)
suspendAsI32(b) == IF b THEN 1 ELSE 0

(* Mutation: the slot is written before the controller is notified *)
checkpointEvents_writeFirst(evs, value) ==
    Append(Append(evs, [op |-> "setI32", value |-> value]),
           [op |-> "postServerAttachToRuntime"])

(* The calls of lines 217-220, in order *)
checkpointEvents(evs, value) ==
    Append(Append(evs, [op |-> "postServerAttachToRuntime"]),
           [op |-> "setI32", value |-> value])

mono_wasm_diagnostic_server_on_runtime_server_init ==
    /\ checkpointCalls < MaxCheckpointCalls
    /\ checkpointCalls' = checkpointCalls + 1
    /\ IF serverEnabled
       THEN /\ events' = checkpointEvents(events, suspendAsI32(suspendOnStartup))
            /\ slot' = suspendAsI32(suspendOnStartup)
       ELSE UNCHANGED <<events, slot>>
    /\ UNCHANGED <<monoWasmThreads, envParts, env, startup_session_configs, startup_sessions,
                   suspendOnStartup, diagnosticsServerEnabled, diagnosticsInitialized,
                   pending, lastInit, controllerStarted, appliedOptions,
                   activatedWhilePending, initCalls, callbackCalls>>

-----------------------------------------------------------------------------
(* The startup of one process *)

InitState ==
    /\ startup_session_configs = <<>>
    /\ startup_sessions = Null
    /\ suspendOnStartup = FALSE
    /\ diagnosticsServerEnabled = FALSE
    /\ diagnosticsInitialized = FALSE
    /\ pending = <<>>
    /\ events = <<>>
    /\ lastInit = "none"
    /\ controllerStarted = FALSE
    /\ appliedOptions = Null
    /\ activatedWhilePending = FALSE
    /\ initCalls = 0
    /\ callbackCalls = 0
    /\ checkpointCalls = 0

Init ==
    /\ monoWasmThreads \in BOOLEAN
    /\ envParts \in EnvParts
    /\ env = getEnv(envParts)
    /\ slot \in SlotInitValues
    /\ InitState

Next ==
    \/ \E opts \in InitInputs : mono_wasm_init_diagnostics(opts)
    \/ \E i \in 1..Len(pending), outcome \in ServerOutcomes :
           resume_init_diagnostics(i, outcome)
    \/ \E rejects \in [1..Len(startup_session_configs) -> BOOLEAN] :
           mono_wasm_event_pipe_early_startup_callback(rejects)
    \/ mono_wasm_diagnostic_server_on_runtime_server_init

Spec == Init /\ [][Next]_vars

(* The parser driven through initialization from the environment, over the *)
(* port specifications built from components                               *)
InitPorts ==
    /\ monoWasmThreads = TRUE
    /\ envParts \in PortSpecParts
    /\ env = getEnv(envParts)
    /\ slot = 0
    /\ InitState

NextPorts ==
    \/ mono_wasm_init_diagnostics(Str(W_env))
    \/ \E outcome \in ServerOutcomes : resume_init_diagnostics(1, outcome)

PortsSpec == InitPorts /\ [][NextPorts]_vars

-----------------------------------------------------------------------------
(* Properties *)

NoFlagSet == ~diagnosticsServerEnabled /\ ~suspendOnStartup

AttachRequests == {j \in 1..Len(events) : events[j].op = "startDiagnosticServer"}

(* C1: once diagnosticsInitialized is set, a call of mono_wasm_init_diagnostics, *)
(* whatever its argument, changes neither the flags nor the registry and asks    *)
(* for no server: only the first call's effects are applied.                     *)
C1_InitializeIdempotent ==
    [][(diagnosticsInitialized /\ initCalls' = initCalls + 1) =>
          UNCHANGED <<diagnosticsInitialized, diagnosticsServerEnabled,
                      suspendOnStartup, startup_session_configs, pending, events>>]_vars

(* A second call returned at the guard after a first call registered a session *)
C1_Witness ==
    /\ initCalls >= 2
    /\ lastInit = "initialized"
    /\ diagnosticsInitialized
    /\ Len(startup_session_configs) > 0

(* C2: after a call that threw a configuration error the state is still          *)
(* uninitialized and nothing was applied, so that a corrected call takes effect. *)
C2_ConfigErrorLeavesUninitialized ==
    lastInit \in {"threw_connectUrl", "threw_suspend"} =>
        /\ ~diagnosticsInitialized
        /\ NoFlagSet
        /\ startup_session_configs = <<>>
        /\ AttachRequests = {}

(* C3: while no startDiagnosticServer call has resolved to a controller, neither *)
(* diagnosticsServerEnabled nor suspendOnStartup is set.                         *)
C3_FailedAttachNeverSuspends ==
    ~controllerStarted => (~diagnosticsServerEnabled /\ ~suspendOnStartup)

(* A call that asked for suspend completed although the server did not start *)
C3_Witness ==
    /\ appliedOptions.t = "object"
    /\ appliedOptions.server
    /\ appliedOptions.suspend
    /\ lastInit = "completed"
    /\ ~controllerStarted
    /\ ~suspendOnStartup

(* The calls the step has added to events *)
NewEvents == SubSeq(events', Len(events) + 1, Len(events'))

IsCreate(e) == e.op = "makeEventPipeSession"

(* C4: an activation over N registered configs leaves N startup sessions, in the *)
(* order of the configs, null exactly where makeEventPipeSession returned null   *)
(* and a started session everywhere else, and leaves the registry empty.         *)
C4_ActivateAllKeepsOrderAndSkipsRejected ==
    [][(callbackCalls' = callbackCalls + 1 /\ monoWasmThreads
          /\ Len(startup_session_configs) > 0) =>
        LET configs == startup_session_configs
            creates == SelectSeq(NewEvents, IsCreate)
        IN
        /\ startup_session_configs' = <<>>
        /\ startup_sessions'.t = "array"
        /\ Len(startup_sessions'.v) = Len(configs)
        /\ Len(creates) = Len(configs)
        /\ \A k \in 1..Len(configs) :
              /\ creates[k].options = configs[k]
              /\ IF creates[k].created
                 THEN /\ startup_sessions'.v[k].t = "session"
                      /\ startup_sessions'.v[k].options = configs[k]
                      /\ \E j \in 1..Len(NewEvents) :
                            /\ NewEvents[j].op = "start"
                            /\ NewEvents[j].session = startup_sessions'.v[k].id
                 ELSE startup_sessions'.v[k] = Null]_vars

(* Two configs were activated, the first rejected and the second started *)
C4_Witness ==
    /\ startup_sessions.t = "array"
    /\ Len(startup_sessions.v) = 2
    /\ startup_sessions.v[1] = Null
    /\ startup_sessions.v[2].t = "session"
    /\ startup_session_configs = <<>>

(* C5: when the single activation ran while a call was suspended at the await    *)
(* and that call has completed, none of its configs is left in the registry.     *)
C5_ActivationAfterRegistryFilled ==
    (callbackCalls = 1 /\ activatedWhilePending /\ pending = <<>>
        /\ lastInit = "completed") =>
        startup_session_configs = <<>>

IsSuspendModifier(w) == w \in {W_suspend, W_nosuspend}
IsListen(w) == w \in {W_listen, <<"L","i","s","t","e","n">>}
IsConnectModifier(w) == IsListen(w) \/ w = W_connect

(* What initialization from the environment made of a last segment of three  *)
(* components whose two modifiers are of one category, when the modifier at  *)
(* position d decides                                                        *)
ModifierDecides(d) ==
    LET last == envParts.last IN
    (initCalls >= 1 /\ Len(last) = 3) =>
        /\ (IsSuspendModifier(last[2]) /\ IsSuspendModifier(last[3])) =>
              /\ appliedOptions.t = "object"
              /\ appliedOptions.suspend = (last[d] = W_suspend)
        /\ (IsConnectModifier(last[2]) /\ IsConnectModifier(last[3])) =>
              (appliedOptions.t = "object" <=> last[d] = W_connect)

(* C6, as stated: of two modifiers of one category the right one decides. *)
C6_RightmostModifierWins == ModifierDecides(3)

(* C6, amended: of two modifiers of one category the left one decides:        *)
(* "p,suspend,nosuspend" gives suspend = true and "p,listen,connect" gives no *)
(* configuration.                                                             *)
C6_LeftmostModifierWins == ModifierDecides(2)

(* "p,suspend,nosuspend" was applied with suspend = true *)
C6_Witness ==
    /\ envParts.last = <<W_p, W_suspend, W_nosuspend>>
    /\ initCalls >= 1
    /\ appliedOptions.t = "object"
    /\ appliedOptions.suspend

(* C7: with diagnosticsServerEnabled false the runtime checkpoint notifies no *)
(* controller and leaves the output slot as it was.                           *)
C7_CheckpointNoOpWhenDisabled ==
    [][(checkpointCalls' = checkpointCalls + 1 /\ ~diagnosticsServerEnabled) =>
          UNCHANGED <<slot, events>>]_vars

(* The checkpoint ran after an initialization whose server did not start *)
C7_Witness ==
    /\ checkpointCalls >= 1
    /\ diagnosticsInitialized
    /\ appliedOptions.t = "object"
    /\ appliedOptions.server
    /\ ~diagnosticsServerEnabled
    /\ slot \in SlotInitValues

(* C8: with diagnosticsServerEnabled true the runtime checkpoint notifies the  *)
(* controller and then writes the slot, 1 when suspendOnStartup and 0          *)
(* otherwise; 1 is written only if a server started and the applied            *)
(* configuration's normalized suspend flag was true; nothing else writes the   *)
(* slot.                                                                       *)
C8_NotifyThenWriteSuspendDecision ==
    [][/\ (checkpointCalls' = checkpointCalls + 1 /\ diagnosticsServerEnabled) =>
            LET value == IF suspendOnStartup THEN 1 ELSE 0 IN
            /\ events' = events \o <<[op |-> "postServerAttachToRuntime"],
                                      [op |-> "setI32", value |-> value]>>
            /\ slot' = value
            /\ value = 1 =>
                  /\ controllerStarted
                  /\ appliedOptions.t = "object"
                  /\ appliedOptions.suspend
       /\ slot' # slot =>
            (checkpointCalls' = checkpointCalls + 1 /\ diagnosticsServerEnabled)]_vars

(* The checkpoint notified the controller and then wrote 1 *)
C8_Witness ==
    /\ checkpointCalls >= 1
    /\ slot = 1
    /\ Len(events) >= 2
    /\ events[Len(events)].op = "setI32"
    /\ events[Len(events) - 1].op = "postServerAttachToRuntime"

(* The diagnostic-port variable is unset or the parser makes nothing of it *)
EnvUnusable == is_nullish(diagnostic_options_from_environment(env))

(* C9: initialization from the environment, with the variable unset or unusable, *)
(* changes no flag and not the registry and asks for no server, and leaves       *)
(* diagnosticsInitialized false.                                                 *)
C9_EnvAbsentIsNoOp ==
    [][(~diagnosticsInitialized /\ initCalls' = initCalls + 1 /\ EnvUnusable
          /\ mono_wasm_init_diagnostics(Str(W_env))) =>
          /\ ~diagnosticsInitialized'
          /\ UNCHANGED <<diagnosticsServerEnabled, suspendOnStartup,
                         startup_session_configs, pending, events>>]_vars

(* Of two calls on a build with diagnostics, one completed without a server and *)
(* registered its sessions: the other, from the unusable environment, had left  *)
(* the state uninitialized                                                      *)
C9_Witness ==
    /\ monoWasmThreads
    /\ EnvUnusable
    /\ initCalls = 2
    /\ lastInit = "completed"
    /\ AttachRequests = {}
    /\ Len(startup_session_configs) > 0

(* C10: after the first call of the activation callback, a further call leaves *)
(* the startup sessions as they were and creates and starts no session.        *)
C10_SecondActivationChangesNothing ==
    [][(callbackCalls >= 1 /\ callbackCalls' = callbackCalls + 1) =>
          UNCHANGED <<startup_sessions, events>>]_vars

(* C11: once the activation callback has run, the registry is empty and stays *)
(* empty: no later step appends a config to it.                              *)
C11_RegistryNeverRefilled ==
    callbackCalls >= 1 => startup_session_configs = <<>>

(* C12: when startDiagnosticServer resolves to no controller or fails, the   *)
(* suspended call still completes: no flag is set, the sessions of its options *)
(* are appended to the registry in order and diagnosticsInitialized holds.   *)
C12_FailedAttachStillCompletes ==
    [][(Len(pending') < Len(pending) /\ ~controllerStarted') =>
          /\ lastInit' = "completed"
          /\ diagnosticsInitialized'
          /\ ~diagnosticsServerEnabled' /\ ~suspendOnStartup'
          /\ startup_session_configs' =
                 startup_session_configs \o pending[1].sessions]_vars

(* The last segment of the port specification, as it is written *)
LastSegmentString == join(envParts.last, ",")

(* C13: with earlier segments in front, initialization from the environment  *)
(* applies what the parser makes of the last segment alone.                  *)
C13_OnlyLastSegmentCounts ==
    LET alone == diagnostic_options_from_ports_spec(LastSegmentString) IN
    (initCalls >= 1 /\ Len(envParts.earlier) >= 1) =>
        IF is_nullish(alone)
        THEN appliedOptions.t = "null"
        ELSE /\ appliedOptions.t = "object"
             /\ appliedOptions.suspend = alone.server.suspend.v
             /\ Len(events) >= 1
             /\ events[1].url = alone.server.connectUrl.v

(* The chosen segment ends in listen mode: it has at most MaxPortComponents  *)
(* components and the connect or listen modifier that the loop applies last  *)
(* (the leftmost one) is listen                                              *)
FinalConnectFalse ==
    LET last == envParts.last IN
    /\ Len(last) <= MaxPortComponents
    /\ \E i \in 2..Len(last) :
          /\ IsListen(last[i])
          /\ \A j \in 2..(i - 1) : ~IsConnectModifier(last[j])

(* C14: when the chosen segment ends in listen mode, initialization from the *)
(* environment applies nothing: no server is asked for, no flag is set and   *)
(* diagnosticsInitialized stays false.                                       *)
C14_ListenModeYieldsNone ==
    FinalConnectFalse =>
        /\ ~diagnosticsInitialized
        /\ NoFlagSet
        /\ appliedOptions.t = "null"
        /\ events = <<>>
        /\ pending = <<>>
        /\ lastInit \in {"none", "no_options"}

(* "a;p,listen,suspend" was given to initialization, which returned without options *)
C14_Witness ==
    /\ envParts.earlier = << <<"a">> >>
    /\ envParts.last = <<W_p, W_listen, W_suspend>>
    /\ initCalls >= 1
    /\ lastInit = "no_options"
    /\ ~diagnosticsInitialized

(* C15: no server is ever asked for with an empty URL. *)
C15_NoAttachWithEmptyUrl ==
    \A j \in AttachRequests : events[j].url # <<>>

(* C16: on a build without diagnostics support nothing is ever applied: the  *)
(* state stays uninitialized, no flag is set, the registry and the startup   *)
(* sessions stay as they were and no collaborator is called, whatever calls  *)
(* of initialization and of the activation callback are made.                *)
C16_UnsupportedBuildIsNoOp ==
    ~monoWasmThreads =>
        /\ ~diagnosticsInitialized
        /\ NoFlagSet
        /\ startup_session_configs = <<>>
        /\ startup_sessions = Null
        /\ pending = <<>>
        /\ events = <<>>
        /\ lastInit \in {"none", "unsupported"}

(* Initialization and the activation callback were both called on such a build *)
C16_Witness ==
    /\ ~monoWasmThreads
    /\ initCalls >= 2
    /\ callbackCalls >= 1
    /\ lastInit = "unsupported"

(* C17: every start directly follows the successful creation of the session  *)
(* it starts, every successful creation is directly followed by the start of *)
(* its session, and a rejected creation is followed by no start.             *)
C17_EachSessionStartedRightAfterCreation ==
    \A j \in 1..Len(events) :
        /\ events[j].op = "start" =>
              /\ j > 1
              /\ events[j - 1].op = "makeEventPipeSession"
              /\ events[j - 1].created
              /\ events[j].session = j - 1
        /\ events[j].op = "makeEventPipeSession" =>
              IF events[j].created
              THEN /\ j < Len(events)
                   /\ events[j + 1].op = "start"
                   /\ events[j + 1].session = j
              ELSE j = Len(events) \/ events[j + 1].op # "start"

(* Two sessions were created and started, the first before the second was created *)
C17_Witness ==
    \E j \in 1..(Len(events) - 3) :
        /\ events[j].op = "makeEventPipeSession" /\ events[j].created
        /\ events[j + 1].op = "start"
        /\ events[j + 2].op = "makeEventPipeSession" /\ events[j + 2].created
        /\ events[j + 3].op = "start"

FlagsOrdered ==
    /\ suspendOnStartup => diagnosticsServerEnabled
    /\ diagnosticsServerEnabled => diagnosticsInitialized

(* C18: suspendOnStartup implies diagnosticsServerEnabled, which implies     *)
(* diagnosticsInitialized, and no step sets any of the three back to false.  *)
C18_FlagsOrderedAndMonotonic ==
    [][/\ FlagsOrdered
       /\ FlagsOrdered'
       /\ suspendOnStartup => suspendOnStartup'
       /\ diagnosticsServerEnabled => diagnosticsServerEnabled'
       /\ diagnosticsInitialized => diagnosticsInitialized']_vars

(* All three flags are set and a later call of initialization has returned *)
C18_Witness ==
    /\ suspendOnStartup
    /\ diagnosticsServerEnabled
    /\ diagnosticsInitialized
    /\ lastInit = "initialized"

(* C19: at most one server is ever asked for, also when a call is made while *)
(* an earlier one is suspended at the await.                                 *)
C19_AtMostOneAttachRequest ==
    Cardinality(AttachRequests) <= 1

(* A second call returned while the first was still waiting for its server *)
C19_Witness ==
    /\ Len(pending) = 1
    /\ initCalls >= 2
    /\ lastInit = "initialized"
    /\ Cardinality(AttachRequests) = 1

StartedSessions == {j \in 1..Len(events) : events[j].op = "start"}

SessionHandles ==
    {k \in 1..Len(getStartupSessions) : getStartupSessions[k].t = "session"}

(* C20: every session the activation callback started is a handle of the     *)
(* startup sessions, and every handle there was started exactly once.        *)
C20_StartedSessionsAreRecorded ==
    /\ \A j \in StartedSessions :
          \E k \in SessionHandles : getStartupSessions[k].id = events[j].session
    /\ \A k \in SessionHandles :
          Cardinality({j \in StartedSessions :
                          events[j].session = getStartupSessions[k].id}) = 1

(* Two started sessions are recorded and the callback was called again after *)
C20_Witness ==
    /\ Cardinality(SessionHandles) = 2
    /\ callbackCalls >= 2
    /\ startup_session_configs = <<>>
    /\ events[Len(events)].op = "start"

====
